---- MODULE Spec2Model ----
(***************************************************************************)
(* Model of pykeg/bin/kegboard_daemon.py: the duplicate-suppressing cache, *)
(* the kegboard manager thread, the device I/O thread and the queue that   *)
(* connects them.                                                          *)
(*                                                                         *)
(* The specifications share the variables:                                 *)
(*   SpecCache  a DuplicateSuppressingCache built with any window and      *)
(*              called directly (ShouldSuppress as a unit);                *)
(*   Spec       the daemon: KegboardDeviceIoThread and                     *)
(*              KegboardManagerThread running concurrently.                *)
(*   FairSpec   Spec with the fairness the thread scheduler provides;      *)
(*   SpecStop   Spec with a history variable for the moment of the stop    *)
(*              signal;                                                    *)
(*   SpecStartup  the start of the process: module body, flag parsing,     *)
(*              _Setup, then the manager's cache in use.                   *)
(***************************************************************************)
EXTENDS Integers, Sequences, FiniteSets

VARIABLES
  now,                  \* the clock when it was last read, in seconds
  max_delta,            \* DuplicateSuppressingCache._max_delta, in seconds
  last_reading_time,    \* DuplicateSuppressingCache._last_reading_time (dict)
  last_reading_value,   \* DuplicateSuppressingCache._last_reading_value (dict)
  calls,                \* history: every ShouldSuppress call and its result
  quit,                 \* the stop signal (_quit) both loops test
  message_queue,        \* KegboardManagerThread._message_queue
  io_pc,                \* position of KegboardDeviceIoThread.run
  io_msg,               \* local msg of KegboardDeviceIoThread._MainLoop
  serial_fd,            \* state of KegboardDeviceIoThread._serial_fd
  read_log,             \* history: messages returned by GetNextMessage
  mgr_pc,               \* position of KegboardManagerThread.run
  mgr_msg,              \* local device_message of KegboardManagerThread.run
  handled,              \* history: messages dequeued by the manager
  sends,                \* history: calls made on the kegnet client
  at_quit,              \* history (SpecStop): what had been enqueued and
                        \* dequeued when the stop signal was set
  app_pc,               \* position of the process: "define", "main",
                        \* "setup" or "run"
  cache_seconds,        \* FLAGS.cache_seconds
  max_age_default       \* the default of max_age in
                        \* DuplicateSuppressingCache.__init__

vars == <<now, max_delta, last_reading_time, last_reading_value, calls, quit,
          message_queue, io_pc, io_msg, serial_fd, read_log, mgr_pc, mgr_msg,
          handled, sends, at_quit, app_pc, cache_seconds, max_age_default>>

cacheVars == <<last_reading_time, last_reading_value, calls>>
ioVars == <<io_pc, io_msg, serial_fd, read_log>>
mgrVars == <<mgr_pc, mgr_msg, handled, sends>>
appVars == <<app_pc, cache_seconds, max_age_default>>

----------------------------------------------------------------------------
(* Bounds of the model *)

MaxCalls == 4     \* ShouldSuppress calls made on a cache under SpecCache
MaxMsgs == 3      \* messages the device delivers under Spec

\* Values datetime.datetime.now() returns (seconds) under SpecCache.
Times == {0, 10, 60, 65, 66}
\* Values datetime.datetime.now() returns (seconds) under Spec.
Instants == {0, 10, 60}
\* Windows a cache is built with under SpecCache.
Windows == {0, 60}
Names == {"flow0"}
Values == {100, 105}
Kinds == {"meter", "thermo"}
Keys == Kinds \X Names

----------------------------------------------------------------------------
(* Program constants *)

\* gflags.DEFINE_integer('cache_seconds', 60, ...)
CacheSecondsDefault == 60
\* Queue.Queue(): maxsize 0, a queue of unlimited size
QueueMaxSize == 0

----------------------------------------------------------------------------
(* DuplicateSuppressingCache *)

\* dict[key] = v
DictSet(d, key, v) ==
  [k \in (DOMAIN d) \cup {key} |-> IF k = key THEN v ELSE d[k]]

\* value != self._last_reading_value.get(key)
ValueDiffers(values, key, value) ==
  \/ key \notin DOMAIN values
  \/ values[key] # value

Record(times, values, key, value, t) ==
  [suppress |-> FALSE,
   time |-> DictSet(times, key, t),
   value |-> DictSet(values, key, value)]

\* Mutant: the window test uses <= instead of <.
ShouldSuppress_LessEq(times, values, delta, key, value, t) ==
  IF key \notin DOMAIN times
    THEN Record(times, values, key, value, t)
  ELSE IF ValueDiffers(values, key, value)
    THEN Record(times, values, key, value, t)
  ELSE IF (t - times[key]) <= delta
    THEN [suppress |-> TRUE, time |-> times, value |-> values]
    ELSE Record(times, values, key, value, t)

\* Mutant: the window test is made before the value comparison.
ShouldSuppress_WindowFirst(times, values, delta, key, value, t) ==
  IF key \notin DOMAIN times
    THEN Record(times, values, key, value, t)
  ELSE IF (t - times[key]) < delta
    THEN [suppress |-> TRUE, time |-> times, value |-> values]
    ELSE Record(times, values, key, value, t)

\* Mutant: a suppressed reading refreshes the stored timestamp.
ShouldSuppress_Touch(times, values, delta, key, value, t) ==
  IF key \notin DOMAIN times
    THEN Record(times, values, key, value, t)
  ELSE IF ValueDiffers(values, key, value)
    THEN Record(times, values, key, value, t)
  ELSE IF (t - times[key]) < delta
    THEN [suppress |-> TRUE, time |-> DictSet(times, key, t), value |-> values]
    ELSE Record(times, values, key, value, t)

\* Mutant: when the window has elapsed the elapsed time is stored in place
\* of the current time.
ShouldSuppress_StoreElapsed(times, values, delta, key, value, t) ==
  IF key \notin DOMAIN times
    THEN Record(times, values, key, value, t)
  ELSE IF ValueDiffers(values, key, value)
    THEN Record(times, values, key, value, t)
  ELSE IF (t - times[key]) < delta
    THEN [suppress |-> TRUE, time |-> times, value |-> values]
    ELSE Record(times, values, key, value, t - times[key])

\* Mutant: when the window has elapsed the entry expires: it is deleted and
\* the reading is forwarded.
ShouldSuppress_Expire(times, values, delta, key, value, t) ==
  IF key \notin DOMAIN times
    THEN Record(times, values, key, value, t)
  ELSE IF ValueDiffers(values, key, value)
    THEN Record(times, values, key, value, t)
  ELSE IF (t - times[key]) < delta
    THEN [suppress |-> TRUE, time |-> times, value |-> values]
    ELSE [suppress |-> FALSE,
          time |-> [k \in (DOMAIN times) \ {key} |-> times[k]],
          value |-> [k \in (DOMAIN values) \ {key} |-> values[k]]]

\* ShouldSuppress(key, value) at time t on a cache holding (times, values)
\* with window delta: the result and the cache it leaves.
ShouldSuppress(times, values, delta, key, value, t) ==
  IF key \notin DOMAIN times
    THEN Record(times, values, key, value, t)
  ELSE IF ValueDiffers(values, key, value)
    THEN Record(times, values, key, value, t)
  ELSE IF (t - times[key]) < delta
    THEN [suppress |-> TRUE, time |-> times, value |-> values]
    ELSE Record(times, values, key, value, t)

EmptyDict == [k \in {} |-> 0]

NoMsg == [id |-> 0, kind |-> "none", name |-> "", value |-> 0]

\* The daemon's threads before they are started.
ThreadsInit ==
  /\ quit = FALSE
  /\ message_queue = <<>>
  /\ io_pc = "start"
  /\ io_msg = NoMsg
  /\ serial_fd = "none"
  /\ read_log = <<>>
  /\ mgr_pc = "loop"
  /\ mgr_msg = NoMsg
  /\ handled = <<>>
  /\ sends = <<>>
  /\ at_quit = [read |-> 0, enqueued |-> 0, dequeued |-> 0]

\* The process once flags are parsed and KegboardManagerApp._Setup has run,
\* started with no --cache_seconds on the command line.
AppRunning ==
  /\ app_pc = "run"
  /\ cache_seconds = CacheSecondsDefault
  /\ max_age_default = CacheSecondsDefault

\* DuplicateSuppressingCache.__init__
CacheInit(max_age) ==
  /\ max_delta = max_age
  /\ last_reading_time = EmptyDict
  /\ last_reading_value = EmptyDict
  /\ calls = <<>>

\* The values datetime.datetime.now() can return: the clock never goes back.
ClockReadings(instants) == {t \in instants : t >= now}

----------------------------------------------------------------------------
(* SpecCache: a cache built with any window, called directly *)

InitCache ==
  /\ now = 0
  /\ \E w \in Windows : CacheInit(w)
  /\ ThreadsInit
  /\ AppRunning

CacheCall ==
  /\ Len(calls) < MaxCalls
  /\ \E key \in Keys, value \in Values, t \in ClockReadings(Times) :
       LET r == ShouldSuppress(last_reading_time, last_reading_value,
                               max_delta, key, value, t)
       IN /\ now' = t
          /\ last_reading_time' = r.time
          /\ last_reading_value' = r.value
          /\ calls' = Append(calls, [id |-> Len(calls) + 1, key |-> key,
                                     value |-> value, time |-> t,
                                     suppress |-> r.suppress])
  /\ UNCHANGED <<max_delta, at_quit, appVars, quit, message_queue, ioVars, mgrVars>>

NextCache == CacheCall

SpecCache == InitCache /\ [][NextCache]_vars

----------------------------------------------------------------------------
(* The message queue: Queue.Queue() *)

\* Mutant: the queue is built with room for one item (Queue.Queue(1)).
PutBlocks_Bounded(q) == Len(q) >= 1

\* Queue.put blocks while a bounded queue is full; maxsize 0 never fills.
PutBlocks(q) == QueueMaxSize > 0 /\ Len(q) >= QueueMaxSize

\* Mutant: the item is put at the head of the queue.
PostDeviceMessage_Front(q, item) == <<item>> \o q

\* KegboardManagerThread.PostDeviceMessage: self._message_queue.put(item)
PostDeviceMessage(q, item) == Append(q, item)

----------------------------------------------------------------------------
(* KegboardManagerThread._HandleDeviceMessage *)

\* What handling msg at time t does: the cache it leaves, the ShouldSuppress
\* call it makes (none for a message of another type) and the client call it
\* goes on to make (none when suppressed).
Handled(r, msg, key, t, fn) ==
  [time |-> r.time,
   value |-> r.value,
   call |-> <<[id |-> msg.id, key |-> key, value |-> msg.value, time |-> t,
               suppress |-> r.suppress]>>,
   send |-> IF ~r.suppress
              THEN <<[id |-> msg.id, fn |-> fn, name |-> msg.name,
                      value |-> msg.value]>>
              ELSE <<>>]

\* Mutant: the temperature branch calls SendMeterUpdate.
HandleDeviceMessage_OneSender(msg, times, values, delta, t) ==
  IF msg.kind = "meter"
    THEN Handled(ShouldSuppress(times, values, delta,
                                <<"meter", msg.name>>, msg.value, t),
                 msg, <<"meter", msg.name>>, t, "SendMeterUpdate")
  ELSE IF msg.kind = "thermo"
    THEN Handled(ShouldSuppress(times, values, delta,
                                <<"thermo", msg.name>>, msg.value, t),
                 msg, <<"thermo", msg.name>>, t, "SendMeterUpdate")
  ELSE [time |-> times, value |-> values, call |-> <<>>, send |-> <<>>]

\* Mutant: the second branch is a plain else, so any message that is not a
\* meter reading is treated as a temperature reading.
HandleDeviceMessage_ElseThermo(msg, times, values, delta, t) ==
  IF msg.kind = "meter"
    THEN Handled(ShouldSuppress(times, values, delta,
                                <<"meter", msg.name>>, msg.value, t),
                 msg, <<"meter", msg.name>>, t, "SendMeterUpdate")
    ELSE Handled(ShouldSuppress(times, values, delta,
                                <<"thermo", msg.name>>, msg.value, t),
                 msg, <<"thermo", msg.name>>, t, "SendThermoUpdate")

\* Mutant: the temperature branch builds its key with 'meter', so a meter
\* and a sensor of the same name share one entry.
HandleDeviceMessage_SharedKey(msg, times, values, delta, t) ==
  IF msg.kind = "meter"
    THEN Handled(ShouldSuppress(times, values, delta,
                                <<"meter", msg.name>>, msg.value, t),
                 msg, <<"meter", msg.name>>, t, "SendMeterUpdate")
  ELSE IF msg.kind = "thermo"
    THEN Handled(ShouldSuppress(times, values, delta,
                                <<"meter", msg.name>>, msg.value, t),
                 msg, <<"meter", msg.name>>, t, "SendThermoUpdate")
  ELSE [time |-> times, value |-> values, call |-> <<>>, send |-> <<>>]

\* Mutant: a reading that is to be sent leaves the cache as it was; nothing
\* is recorded before the client call.
HandleDeviceMessage_NoRecord(msg, times, values, delta, t) ==
  LET key == <<msg.kind, msg.name>>
      r == ShouldSuppress(times, values, delta, key, msg.value, t)
      fn == IF msg.kind = "meter" THEN "SendMeterUpdate" ELSE "SendThermoUpdate"
  IN IF msg.kind \in {"meter", "thermo"}
       THEN Handled([suppress |-> r.suppress, time |-> times, value |-> values],
                    msg, key, t, fn)
       ELSE [time |-> times, value |-> values, call |-> <<>>, send |-> <<>>]

HandleDeviceMessage(msg, times, values, delta, t) ==
  IF msg.kind = "meter"
    THEN Handled(ShouldSuppress(times, values, delta,
                                <<"meter", msg.name>>, msg.value, t),
                 msg, <<"meter", msg.name>>, t, "SendMeterUpdate")
  ELSE IF msg.kind = "thermo"
    THEN Handled(ShouldSuppress(times, values, delta,
                                <<"thermo", msg.name>>, msg.value, t),
                 msg, <<"thermo", msg.name>>, t, "SendThermoUpdate")
  ELSE [time |-> times, value |-> values, call |-> <<>>, send |-> <<>>]

----------------------------------------------------------------------------
(* Spec: the daemon *)

\* The messages the device decoder can return; id is the position of the
\* message in the stream read from the device.
DeviceMessages(id) ==
  {[id |-> id, kind |-> k, name |-> n, value |-> v] :
     k \in Kinds, n \in Names, v \in Values}
  \cup {[id |-> id, kind |-> "other", name |-> "", value |-> 0]}

\* KegboardManagerThread.__init__ builds DuplicateSuppressingCache() with no
\* argument: max_age is the default, FLAGS.cache_seconds as it was when the
\* class body was executed.
Init ==
  /\ now = 0
  /\ AppRunning
  /\ CacheInit(max_age_default)
  /\ ThreadsInit

\* The controller sets the stop signal.
Quit ==
  /\ ~quit
  /\ quit' = TRUE
  /\ UNCHANGED <<now, max_delta, at_quit, appVars, cacheVars, message_queue,
                 ioVars, mgrVars>>

\* The same step, with the history variable at_quit recording how many
\* messages had been read, enqueued and dequeued when the signal was set.
QuitObserved ==
  /\ ~quit
  /\ quit' = TRUE
  /\ at_quit' = [read |-> Len(read_log),
                 enqueued |-> Len(handled) + Len(message_queue),
                 dequeued |-> Len(handled)]
  /\ UNCHANGED <<now, max_delta, appVars, cacheVars, message_queue, ioVars,
                 mgrVars>>

(* KegboardDeviceIoThread *)

\* run: _SetupSerial opens the port.
IoSetup ==
  /\ io_pc = "start"
  /\ serial_fd' = "open"
  /\ io_pc' = "loop"
  /\ UNCHANGED <<now, max_delta, at_quit, appVars, cacheVars, quit, message_queue, io_msg,
                 read_log, mgrVars>>

\* run: serial.Serial raises; nothing was opened and run ends with the error.
IoSetupFail ==
  /\ io_pc = "start"
  /\ io_pc' = "raised"
  /\ UNCHANGED <<now, max_delta, at_quit, appVars, cacheVars, quit, message_queue, io_msg,
                 serial_fd, read_log, mgrVars>>

\* Mutant: the reader loop never tests the signal (while True).
IoKeepsRunning_Always(stop) == TRUE

\* _MainLoop: while not self._quit
IoKeepsRunning(stop) == ~stop

\* Mutant: the port is closed after _MainLoop returns, with no finally.
RunFinally_NoFinally(raised) == IF raised THEN "open" ELSE "closed"

\* run: try: self._MainLoop() finally: self._serial_fd.close(); raised tells
\* whether _MainLoop ended by an exception.
RunFinally(raised) == "closed"

\* _MainLoop: while not self._quit (the signal is not set)
IoLoop ==
  /\ io_pc = "loop"
  /\ IoKeepsRunning(quit)
  /\ io_pc' = "read"
  /\ UNCHANGED <<now, max_delta, at_quit, appVars, cacheVars, quit, message_queue, io_msg,
                 serial_fd, read_log, mgrVars>>

\* _MainLoop: the signal is set; the loop ends and run's finally closes.
IoExit ==
  /\ io_pc = "loop"
  /\ ~IoKeepsRunning(quit)
  /\ serial_fd' = RunFinally(FALSE)
  /\ io_pc' = "done"
  /\ UNCHANGED <<now, max_delta, at_quit, appVars, cacheVars, quit, message_queue, io_msg,
                 read_log, mgrVars>>

\* _MainLoop: msg = self._reader.GetNextMessage()
IoRead ==
  /\ io_pc = "read"
  /\ Len(read_log) < MaxMsgs
  /\ \E msg \in DeviceMessages(Len(read_log) + 1) :
       /\ io_msg' = msg
       /\ read_log' = Append(read_log, msg)
  /\ io_pc' = "post"
  /\ UNCHANGED <<now, max_delta, at_quit, appVars, cacheVars, quit, message_queue, serial_fd,
                 mgrVars>>

\* _MainLoop: GetNextMessage raises; run's finally closes and the error
\* leaves run.
IoReadFail ==
  /\ io_pc = "read"
  /\ serial_fd' = RunFinally(TRUE)
  /\ io_pc' = "raised"
  /\ UNCHANGED <<now, max_delta, at_quit, appVars, cacheVars, quit, message_queue, io_msg,
                 read_log, mgrVars>>

\* _MainLoop: self._manager.PostDeviceMessage('kegboard', msg)
IoPost ==
  /\ io_pc = "post"
  /\ ~PutBlocks(message_queue)
  /\ message_queue' = PostDeviceMessage(message_queue, io_msg)
  /\ io_pc' = "loop"
  /\ UNCHANGED <<now, max_delta, at_quit, appVars, cacheVars, quit, io_msg, serial_fd,
                 read_log, mgrVars>>

(* KegboardManagerThread *)

\* Mutant: get returns the oldest item and leaves it in the queue.
Dequeue_Peek(q) == [item |-> Head(q), rest |-> q]

\* self._message_queue.get: the oldest item, removed.
Dequeue(q) == [item |-> Head(q), rest |-> Tail(q)]

\* Mutant: no handler; the exception ends run.
AfterClientException_Uncaught == "raised"

\* run: except kegnet_client.ClientException logs a warning and the while
\* loop goes on.
AfterClientException == "loop"

\* Mutant: the loop goes on until the signal is set and the queue is empty.
KeepsRunning_Drain(stop, q) == ~stop \/ q # <<>>

\* run: while not self._quit
KeepsRunning(stop, q) == ~stop

\* Mutant: the get has no timeout and goes on waiting on the empty queue.
AfterQueueEmpty_Blocking == "get"

\* run: except Queue.Empty: continue
AfterQueueEmpty == "loop"

\* run: while not self._quit (the signal is not set)
MgrLoop ==
  /\ mgr_pc = "loop"
  /\ KeepsRunning(quit, message_queue)
  /\ mgr_pc' = "get"
  /\ UNCHANGED <<now, max_delta, at_quit, appVars, cacheVars, quit, message_queue, ioVars,
                 mgr_msg, handled, sends>>

\* run: the signal is set; the loop ends.
MgrExit ==
  /\ mgr_pc = "loop"
  /\ ~KeepsRunning(quit, message_queue)
  /\ mgr_pc' = "done"
  /\ UNCHANGED <<now, max_delta, at_quit, appVars, cacheVars, quit, message_queue, ioVars,
                 mgr_msg, handled, sends>>

\* run: self._message_queue.get(timeout=1.0) returns an item.
MgrGet ==
  /\ mgr_pc = "get"
  /\ message_queue # <<>>
  /\ mgr_msg' = Dequeue(message_queue).item
  /\ message_queue' = Dequeue(message_queue).rest
  /\ handled' = Append(handled, Dequeue(message_queue).item)
  /\ mgr_pc' = "handle"
  /\ UNCHANGED <<now, max_delta, at_quit, appVars, cacheVars, quit, ioVars, sends>>

\* run: the get times out on the empty queue (Queue.Empty): continue.
MgrGetEmpty ==
  /\ mgr_pc = "get"
  /\ message_queue = <<>>
  /\ mgr_pc' = AfterQueueEmpty
  /\ UNCHANGED <<now, max_delta, at_quit, appVars, cacheVars, quit, message_queue, ioVars,
                 mgr_msg, handled, sends>>

\* run: self._HandleDeviceMessage(device_name, device_message), up to the
\* call on the client.
MgrHandle ==
  /\ mgr_pc = "handle"
  /\ \E t \in ClockReadings(Instants) :
       LET h == HandleDeviceMessage(mgr_msg, last_reading_time,
                                    last_reading_value, max_delta, t)
       IN /\ now' = IF h.call # <<>> THEN t ELSE now
          /\ last_reading_time' = h.time
          /\ last_reading_value' = h.value
          /\ calls' = calls \o h.call
          /\ mgr_pc' = IF h.send # <<>> THEN h.send[1].fn ELSE "loop"
  /\ UNCHANGED <<max_delta, at_quit, appVars, quit, message_queue, ioVars, mgr_msg, handled,
                 sends>>

Sending == mgr_pc \in {"SendMeterUpdate", "SendThermoUpdate"}

\* The call the manager is making on the client.
ClientCall(ok) ==
  [id |-> mgr_msg.id, fn |-> mgr_pc, name |-> mgr_msg.name,
   value |-> mgr_msg.value, ok |-> ok]

\* The client call returns.
MgrSendReturns ==
  /\ Sending
  /\ sends' = Append(sends, ClientCall(TRUE))
  /\ mgr_pc' = "loop"
  /\ UNCHANGED <<now, max_delta, at_quit, appVars, cacheVars, quit, message_queue, ioVars,
                 mgr_msg, handled>>

\* The client call raises kegnet_client.ClientException.
MgrSendRaises ==
  /\ Sending
  /\ sends' = Append(sends, ClientCall(FALSE))
  /\ mgr_pc' = AfterClientException
  /\ UNCHANGED <<now, max_delta, at_quit, appVars, cacheVars, quit, message_queue, ioVars,
                 mgr_msg, handled>>

IoNext == IoSetup \/ IoSetupFail \/ IoLoop \/ IoExit \/ IoRead \/ IoReadFail
            \/ IoPost

MgrNext == MgrLoop \/ MgrExit \/ MgrGet \/ MgrGetEmpty \/ MgrHandle
             \/ MgrSendReturns \/ MgrSendRaises

Next == Quit \/ IoNext \/ MgrNext

Spec == Init /\ [][Next]_vars

\* The scheduler lets a running manager thread take its next step, client
\* calls return or raise, and a put on the queue completes.
FairSpec == Spec /\ WF_vars(MgrNext) /\ WF_vars(IoPost)

\* Spec with the history variable at_quit kept.
NextStop == QuitObserved \/ IoNext \/ MgrNext

SpecStop == Init /\ [][NextStop]_vars

----------------------------------------------------------------------------
(* SpecStartup: the process from the import of the module to the running   *)
(* manager, whose cache is then called                                     *)

\* Values --cache_seconds is given on the command line.
FlagValues == {0, 30, 60}

InitStartup ==
  /\ now = 0
  /\ CacheInit(0)
  /\ ThreadsInit
  /\ app_pc = "define"
  /\ cache_seconds = CacheSecondsDefault
  /\ max_age_default = 0

\* The module body runs: gflags.DEFINE_integer('cache_seconds', 60, ...) and
\* then the class statement, which evaluates the default of max_age,
\* FLAGS.cache_seconds, once.
DefineClasses ==
  /\ app_pc = "define"
  /\ max_age_default' = cache_seconds
  /\ app_pc' = "main"
  /\ UNCHANGED <<now, max_delta, at_quit, cache_seconds, cacheVars, quit,
                 message_queue, ioVars, mgrVars>>

\* KegboardManagerApp.BuildAndRun() parses the command line.
ParseFlags ==
  /\ app_pc = "main"
  /\ \E v \in FlagValues : cache_seconds' = v
  /\ app_pc' = "setup"
  /\ UNCHANGED <<now, max_delta, at_quit, max_age_default, cacheVars, quit,
                 message_queue, ioVars, mgrVars>>

\* KegboardManagerApp._Setup builds KegboardManagerThread, which builds
\* DuplicateSuppressingCache() with no argument.
Setup ==
  /\ app_pc = "setup"
  /\ max_delta' = max_age_default
  /\ app_pc' = "run"
  /\ UNCHANGED <<now, at_quit, cache_seconds, max_age_default, cacheVars,
                 quit, message_queue, ioVars, mgrVars>>

\* The manager's cache is used.
ManagerCall == app_pc = "run" /\ CacheCall

NextStartup == DefineClasses \/ ParseFlags \/ Setup \/ ManagerCall

SpecStartup == InitStartup /\ [][NextStartup]_vars

----------------------------------------------------------------------------
(* Reading the call history *)

Last(s) == s[Len(s)]

\* The step made one ShouldSuppress call.
Called == Len(calls') = Len(calls) + 1

\* The calls made on one key, in order.
CallsOn(key) == SelectSeq(calls, LAMBDA c : c.key = key)

\* The value of the key never changed in the first n calls of S.
Unchanged(S, n) == \A j \in 1..n : S[j].value = S[1].value

Max(S) == CHOOSE x \in S : \A y \in S : y <= x

\* The calls of S before the i-th that returned false.
ForwardedBefore(S, i) == {j \in 1..(i - 1) : ~S[j].suppress}

\* The calls of S made in [s, s + max_delta) that returned false.
ForwardedIn(S, s) ==
  {j \in 1..Len(S) : ~S[j].suppress /\ s <= S[j].time /\ S[j].time < s + max_delta}

CallsIn(S, s) ==
  {j \in 1..Len(S) : s <= S[j].time /\ S[j].time < s + max_delta}

\* Starts of the intervals of window length that begin at an observed instant
\* or end with one. Two calls less than a window apart both lie in the
\* interval that starts at the earlier one, so these intervals decide how
\* many forwarded calls any interval of window length can hold.
IntervalStarts == Times \cup {t - max_delta + 1 : t \in Times}

----------------------------------------------------------------------------
(* Claims about DuplicateSuppressingCache, under SpecCache *)

\* C1: a ShouldSuppress(key, v2) call made while the stored value of key is
\* v1 # v2 returns false whatever the elapsed time and the window, and leaves
\* the entry (v2, now) for key.
C1_ChangeAlwaysForwards ==
  [][Called =>
       LET c == Last(calls') IN
         (c.key \in DOMAIN last_reading_value
            /\ last_reading_value[c.key] # c.value)
         => /\ c.suppress = FALSE
            /\ last_reading_value'[c.key] = c.value
            /\ last_reading_time'[c.key] = c.time
            /\ c.time = now']_vars

\* A changed value was forwarded with no time elapsed, inside a 60 s window.
C1_Witness ==
  /\ max_delta = 60
  /\ \E i \in 2..Len(calls) :
       /\ calls[i].key = calls[i - 1].key
       /\ calls[i].value # calls[i - 1].value
       /\ calls[i].time = calls[i - 1].time
       /\ ~calls[i].suppress
       /\ i = Len(calls)
       /\ last_reading_value[calls[i].key] = calls[i].value
       /\ last_reading_time[calls[i].key] = calls[i].time

\* The readings of the scenario of C2 and the results it expects.
ScenarioC2(S) ==
  /\ max_delta = 60
  /\ Len(S) = 4
  /\ <<S[1].value, S[2].value, S[3].value, S[4].value>> = <<100, 100, 100, 105>>
  /\ <<S[1].time, S[2].time, S[3].time, S[4].time>> = <<0, 10, 65, 66>>

\* C2: on one key with an unchanged value, a call returns false iff it is the
\* first call on the key or at least the window has elapsed since the most
\* recent call on the key that returned false; and with window 60 the
\* readings 100@0, 100@10, 100@65, 105@66 return false, true, false, false.
C2_ForwardIffWindowElapsed ==
  \A key \in Keys :
    LET S == CallsOn(key) IN
      /\ \A i \in 1..Len(S) :
           Unchanged(S, i) =>
             (~S[i].suppress <=>
                \/ i = 1
                \/ /\ ForwardedBefore(S, i) # {}
                   /\ S[i].time - S[Max(ForwardedBefore(S, i))].time >= max_delta)
      /\ ScenarioC2(S) =>
           <<S[1].suppress, S[2].suppress, S[3].suppress, S[4].suppress>>
             = <<FALSE, TRUE, FALSE, FALSE>>

C2_Witness ==
  LET S == CallsOn(<<"meter", "flow0">>) IN
    /\ ScenarioC2(S)
    /\ <<S[1].suppress, S[2].suppress, S[3].suppress, S[4].suppress>>
         = <<FALSE, TRUE, FALSE, FALSE>>

\* C3: a ShouldSuppress call that returns true was made with the stored value
\* and less than the window after the stored timestamp, and it leaves both
\* dictionaries of the cache as they were.
C3_SuppressLeavesCache ==
  [][Called =>
       LET c == Last(calls') IN
         c.suppress =>
           /\ c.key \in DOMAIN last_reading_time
           /\ c.key \in DOMAIN last_reading_value
           /\ last_reading_value[c.key] = c.value
           /\ c.time = now'
           /\ c.time - last_reading_time[c.key] < max_delta
           /\ last_reading_time' = last_reading_time
           /\ last_reading_value' = last_reading_value]_vars

\* The last call was suppressed some time after the stored timestamp, which
\* it left alone.
C3_Witness ==
  /\ calls # <<>>
  /\ Last(calls).suppress
  /\ Last(calls).time = now
  /\ last_reading_time[Last(calls).key] < Last(calls).time
  /\ last_reading_value[Last(calls).key] = Last(calls).value

\* Within the window after the first call, every later call with the
\* unchanged value returns true.
RepeatsSuppressed(S) ==
  \A i \in 2..Len(S) :
    (Unchanged(S, i) /\ S[i].time - S[1].time < max_delta) => S[i].suppress

\* C4 as stated: ... and every interval of window length (that holds a call
\* at all) holds exactly one call that returned false.
C4_ExactlyOnePerWindow ==
  \A key \in Keys :
    LET S == CallsOn(key) IN
      Unchanged(S, Len(S)) =>
        /\ RepeatsSuppressed(S)
        /\ \A s \in IntervalStarts :
             CallsIn(S, s) # {} => Cardinality(ForwardedIn(S, s)) = 1

\* C4 (amended): for a key with an unchanged value, every call after the
\* first made within the window returns true; an interval [s, s + window)
\* holds at most one call that returned false, and the interval of window
\* length that ends with a call holds exactly one.
C4_AtMostOnePerWindow ==
  \A key \in Keys :
    LET S == CallsOn(key) IN
      Unchanged(S, Len(S)) =>
        /\ RepeatsSuppressed(S)
        /\ \A s \in IntervalStarts : Cardinality(ForwardedIn(S, s)) <= 1
        /\ max_delta > 0 =>
             \A i \in 1..Len(S) :
               Cardinality(ForwardedIn(S, S[i].time - max_delta + 1)) = 1

\* Three calls with one value: forwarded, suppressed, and forwarded again
\* once the window had elapsed.
C4_Witness ==
  /\ max_delta = 60
  /\ \E key \in Keys :
       LET S == CallsOn(key) IN
         /\ Len(S) >= 3
         /\ Unchanged(S, Len(S))
         /\ ~S[1].suppress /\ S[2].suppress /\ ~S[3].suppress
         /\ S[2].time > S[1].time

\* C5: a cache built with a window of 0 seconds never suppresses: every
\* ShouldSuppress call returns false, so that _HandleDeviceMessage, given
\* any meter or thermo reading at any later time, goes on to the client call.
C5_ZeroWindowNeverSuppresses ==
  max_delta = 0 =>
    /\ \A i \in 1..Len(calls) : ~calls[i].suppress
    /\ \A m \in DeviceMessages(Len(calls) + 1), t \in ClockReadings(Times) :
         m.kind \in Kinds =>
           HandleDeviceMessage(m, last_reading_time, last_reading_value,
                               max_delta, t).send # <<>>

\* With window 0, the same value was offered twice at the same instant.
C5_Witness ==
  /\ max_delta = 0
  /\ \E i \in 2..Len(calls) :
       /\ calls[i].key = calls[i - 1].key
       /\ calls[i].value = calls[i - 1].value
       /\ calls[i].time = calls[i - 1].time
       /\ ~calls[i].suppress

----------------------------------------------------------------------------
(* Reading the daemon's history *)

IsPrefix(a, b) == Len(a) <= Len(b) /\ \A i \in 1..Len(a) : a[i] = b[i]

IsReading(m) == m.kind \in Kinds

KeyOf(m) == <<m.kind, m.name>>

SenderOf(m) == IF m.kind = "meter" THEN "SendMeterUpdate" ELSE "SendThermoUpdate"

\* The client calls made for message id that have returned or raised.
SendsFor(id) == {j \in 1..Len(sends) : sends[j].id = id}

\* The ShouldSuppress calls made for message id.
CallsFor(id) == {j \in 1..Len(calls) : calls[j].id = id}

\* The manager is inside the client call for message id.
InSend(id) == Sending /\ mgr_msg.id = id

\* _HandleDeviceMessage has classified the i-th dequeued message and made
\* its ShouldSuppress call.
Decided(i) == i < Len(handled) \/ (i = Len(handled) /\ mgr_pc # "handle")

\* _HandleDeviceMessage has returned or raised for the i-th dequeued message.
Finished(i) ==
  i < Len(handled) \/ (i = Len(handled) /\ mgr_pc # "handle" /\ ~Sending)

\* The client call for the i-th dequeued message raised.
SendFailed(i) == \E j \in SendsFor(handled[i].id) : ~sends[j].ok

\* A client call was made for the i-th dequeued message.
SendCalled(i) == SendsFor(handled[i].id) # {} \/ InSend(handled[i].id)

\* The messages PostDeviceMessage has put on the queue so far.
Enqueued ==
  IF io_pc = "post" THEN SubSeq(read_log, 1, Len(read_log) - 1) ELSE read_log

----------------------------------------------------------------------------
(* Claims about the two loops, under Spec *)

\* C6: the sequence of messages the manager dequeues is a prefix of the
\* sequence the I/O loop read from the device: same messages, same order,
\* none twice.
C6_FifoPreservation == IsPrefix(handled, read_log)

\* Two different messages were dequeued in the order read while a third
\* was waiting in the queue.
C6_Witness ==
  /\ Len(handled) = 2
  /\ handled[1].kind # handled[2].kind
  /\ Len(message_queue) = 1
  /\ message_queue[1] = read_log[3]

\* C7 as stated: a client call that raises does not end the manager, and the
\* next message dequeued, when it is a reading with another key, has its
\* send called.
C7_NextDistinctKeySent ==
  /\ mgr_pc # "raised"
  /\ \A i \in 1..(Len(handled) - 1) :
       (/\ SendFailed(i)
        /\ Decided(i + 1)
        /\ IsReading(handled[i + 1])
        /\ KeyOf(handled[i + 1]) # KeyOf(handled[i]))
       => SendCalled(i + 1)

\* No ShouldSuppress call was made on the key of the i-th dequeued message
\* before that message.
FreshKey(i) ==
  \A j \in 1..Len(calls) :
    calls[j].key = KeyOf(handled[i]) => calls[j].id >= handled[i].id

\* C7 (amended): a client call that raises does not end the manager; the
\* next message dequeued, when it is a reading, has its send called if and
\* only if ShouldSuppress returned false for it, as it does when its key was
\* never seen before (a key distinct from message k's is not enough).
C7_SendFailureIsolation ==
  /\ mgr_pc # "raised"
  /\ \A i \in 1..(Len(handled) - 1) :
       (SendFailed(i) /\ Decided(i + 1) /\ IsReading(handled[i + 1]))
       => /\ \A j \in CallsFor(handled[i + 1].id) :
               SendCalled(i + 1) <=> ~calls[j].suppress
          /\ CallsFor(handled[i + 1].id) # {}
          /\ FreshKey(i + 1) => SendCalled(i + 1)

\* The send of one reading raised and the next reading, of another key, was
\* sent.
C7_Witness ==
  \E i \in 1..(Len(handled) - 1) :
    /\ SendFailed(i)
    /\ KeyOf(handled[i + 1]) # KeyOf(handled[i])
    /\ \E j \in SendsFor(handled[i + 1].id) : sends[j].ok

\* C8 as stated, at the end of a run: when both loops have ended, every
\* message that was enqueued has been handled.
C8_AllHandledAtExit ==
  (mgr_pc = "done" /\ io_pc \in {"done", "raised"}) => handled = Enqueued

\* Every message read is in exactly one place: handled, queued or held by
\* the I/O loop for its put.
NoLossNoDuplication ==
  handled \o message_queue \o (IF io_pc = "post" THEN <<io_msg>> ELSE <<>>)
    = read_log

\* Every message put on the queue has been dequeued and its handling has
\* finished.
AllHandled == handled = Enqueued /\ Finished(Len(handled))

\* C8 (amended): no message is lost or handled twice in any run, and unless
\* the stop signal is set every enqueued message is eventually handled
\* (client calls assumed to return or raise).
C8_HandledOnceUnlessStopped ==
  /\ []NoLossNoDuplication
  /\ []<>(quit \/ AllHandled)

\* Every message read was handled and both loops then stopped.
C8_Witness ==
  /\ Len(read_log) = MaxMsgs
  /\ handled = read_log
  /\ Finished(MaxMsgs)
  /\ quit

\* C9: a handled meter reading has SendMeterUpdate(name, value) called once
\* if its ShouldSuppress call on (meter, name) returned false and no client
\* call otherwise; likewise a thermo reading and SendThermoUpdate; a message
\* of another type has neither a ShouldSuppress call nor a client call.
C9_DispatchCorrespondence ==
  \A i \in 1..Len(handled) :
    LET m == handled[i] IN
      Decided(i) =>
        IF IsReading(m)
          THEN /\ Cardinality(CallsFor(m.id)) = 1
               /\ \A j \in CallsFor(m.id) :
                    /\ calls[j].key = <<m.kind, m.name>>
                    /\ calls[j].value = m.value
                    /\ calls[j].suppress =>
                         SendsFor(m.id) = {} /\ ~InSend(m.id)
                    /\ ~calls[j].suppress =>
                         IF Finished(i)
                           THEN Cardinality(SendsFor(m.id)) = 1
                           ELSE SendsFor(m.id) = {} /\ mgr_pc = SenderOf(m)
               /\ \A j \in SendsFor(m.id) :
                    /\ sends[j].fn = SenderOf(m)
                    /\ sends[j].name = m.name
                    /\ sends[j].value = m.value
          ELSE CallsFor(m.id) = {} /\ SendsFor(m.id) = {} /\ ~InSend(m.id)

\* A meter reading and a thermo reading were each sent through their own
\* call and a repeated reading was suppressed.
C9_Witness ==
  /\ \E j \in 1..Len(sends) : sends[j].fn = "SendMeterUpdate"
  /\ \E j \in 1..Len(sends) : sends[j].fn = "SendThermoUpdate"
  /\ \E j \in 1..Len(calls) : calls[j].suppress
  /\ Finished(Len(handled))

\* C10: whatever the manager is doing, the put of a message the I/O loop has
\* read can complete at once; the I/O loop then returns to its loop test.
C10_IoNeverBlocked == io_pc = "post" => ENABLED IoPost

\* The I/O loop is about to put a message while the manager is inside a
\* client call and an earlier client call has raised.
C10_Witness ==
  /\ io_pc = "post"
  /\ Sending
  /\ \E j \in 1..Len(sends) : ~sends[j].ok

\* The I/O thread has left run, normally or by an exception.
IoEnded == io_pc \in {"done", "raised"}

\* C11: once the port is open the I/O thread closes it however run ends:
\* it is open exactly while the loop runs and closed after; a failing read
\* ends run with the exception and the port closed, and the thread reads
\* and enqueues nothing afterwards.
C11_IoClosesOnEveryExit ==
  /\ [](/\ io_pc \in {"loop", "read", "post"} => serial_fd = "open"
        /\ (IoEnded /\ serial_fd # "none") => serial_fd = "closed")
  /\ [][/\ (io_pc = "read" /\ io_pc' # "read" /\ read_log' = read_log)
             => (io_pc' = "raised" /\ serial_fd' = "closed")
        /\ IoEnded => UNCHANGED ioVars]_vars

\* A read failed after a message had been read and enqueued: run ended with
\* the exception and the port closed.
C11_Witness ==
  /\ io_pc = "raised"
  /\ serial_fd = "closed"
  /\ Len(read_log) >= 1
  /\ ~quit

\* C12: once the stop signal is set the manager loop eventually ends,
\* whether or not the queue is empty (client calls assumed to return or
\* raise); a get that times out on the empty queue goes back to the loop
\* test.
C12_ManagerStops ==
  /\ []<>(~quit \/ mgr_pc = "done")
  /\ [][(mgr_pc = "get" /\ message_queue = <<>> /\ mgr_pc' # "get")
          => mgr_pc' = "loop"]_vars

\* The manager loop has ended on the stop signal with a message still queued.
C12_Witness ==
  /\ quit
  /\ mgr_pc = "done"
  /\ message_queue # <<>>

\* C13: handling a message that is neither a meter reading nor a temperature
\* reading calls neither ShouldSuppress nor the client, leaves the cache as
\* it was, raises nothing and takes the manager back to the loop test.
C13_UnknownMessageIgnored ==
  [][(mgr_pc = "handle" /\ ~IsReading(mgr_msg) /\ mgr_pc' # "handle")
       => /\ mgr_pc' = "loop"
          /\ UNCHANGED <<last_reading_time, last_reading_value, calls,
                         sends, now>>]_vars

\* A message of another type was handled with no call made for it, and the
\* reading after it was sent.
C13_Witness ==
  \E i \in 1..(Len(handled) - 1) :
    /\ handled[i].kind = "other"
    /\ CallsFor(handled[i].id) = {}
    /\ SendsFor(handled[i].id) = {}
    /\ IsReading(handled[i + 1])
    /\ SendsFor(handled[i + 1].id) # {}

----------------------------------------------------------------------------
(* Claim about the start of the process, under SpecStartup *)

\* C14: the window of the manager's cache is the value of cache_seconds in
\* force when the manager and its cache are built; with 0 configured the
\* cache never suppresses.
C14_WindowIsConfiguredValue ==
  app_pc = "run" =>
    /\ max_delta = cache_seconds
    /\ cache_seconds = 0 => \A i \in 1..Len(calls) : ~calls[i].suppress

----------------------------------------------------------------------------
(* Claims about the stop signal, under SpecStop *)

\* C15: with the stop signal set, the I/O loop at its loop test starts no
\* read and exits; a read or a put in progress completes, and its message is
\* enqueued; so at most one message is read and at most one enqueued after
\* the signal was set.
C15_IoStopsAtLoopTest ==
  quit =>
    /\ Len(read_log) <= at_quit.read + 1
    /\ Len(Enqueued) <= at_quit.enqueued + 1
    /\ io_pc = "loop" => (~ENABLED IoLoop /\ ENABLED IoExit)
    /\ io_pc = "post" => ENABLED IoPost
    /\ io_pc = "done" => Enqueued = read_log

\* The signal was set during a read; the read returned a message, the message
\* was enqueued and the loop then ended.
C15_Witness ==
  /\ quit
  /\ io_pc = "done"
  /\ Len(read_log) = at_quit.read + 1
  /\ Len(Enqueued) = at_quit.enqueued + 1
  /\ at_quit.read = at_quit.enqueued

\* C20: after the stop signal is set the manager dequeues at most one more
\* message; once its loop has ended it takes no step, so what is still
\* queued is never handled or sent.
C20_NoDrainAfterStop ==
  /\ quit => Len(handled) <= at_quit.dequeued + 1
  /\ mgr_pc = "done" =>
       /\ quit
       /\ ~ENABLED MgrNext
       /\ \A i \in 1..Len(message_queue) :
            CallsFor(message_queue[i].id) = {}
              /\ SendsFor(message_queue[i].id) = {}

\* The signal was set during a get; the manager handled the message it got
\* and ended with another message left in the queue.
C20_Witness ==
  /\ mgr_pc = "done"
  /\ Len(handled) = at_quit.dequeued + 1
  /\ message_queue # <<>>

----------------------------------------------------------------------------
(* Claims about the entries of the cache, under SpecCache *)

\* C16: the stored timestamp of a key never decreases: every ShouldSuppress
\* call leaves it unchanged or replaces it with the current time (the clock
\* does not run backwards), and a key's first call stores the current time.
C16_TimestampMonotone ==
  [][/\ \A k \in DOMAIN last_reading_time :
          /\ k \in DOMAIN last_reading_time'
          /\ last_reading_time'[k] >= last_reading_time[k]
          /\ \/ last_reading_time'[k] = last_reading_time[k]
             \/ last_reading_time'[k] = now'
     /\ \A k \in (DOMAIN last_reading_time') \ (DOMAIN last_reading_time) :
          last_reading_time'[k] = now']_vars

\* A key's timestamp was kept by a suppressed call and later replaced by a
\* later time.
C16_Witness ==
  \E i, j \in 1..Len(calls) :
    /\ i < j
    /\ calls[i].key = calls[j].key
    /\ calls[i].suppress
    /\ ~calls[j].suppress
    /\ last_reading_time[calls[j].key] = calls[j].time
    /\ calls[j].time > calls[i].time

\* The calls on key, so far, that returned false.
ForwardedOn(key) == {i \in 1..Len(calls) : calls[i].key = key /\ ~calls[i].suppress}

\* C17: the keys with a stored timestamp are the keys with a stored value,
\* and are the keys ShouldSuppress was called on; the entry of a key holds
\* the value (and the time) of the most recent call on the key that returned
\* false; an entry once created is never removed.
C17_OneCompleteEntryPerKey ==
  /\ [](/\ DOMAIN last_reading_time = DOMAIN last_reading_value
        /\ DOMAIN last_reading_time = {calls[i].key : i \in 1..Len(calls)}
        /\ \A k \in DOMAIN last_reading_time :
             /\ ForwardedOn(k) # {}
             /\ last_reading_value[k] = calls[Max(ForwardedOn(k))].value
             /\ last_reading_time[k] = calls[Max(ForwardedOn(k))].time)
  /\ [][DOMAIN last_reading_time \subseteq DOMAIN last_reading_time']_vars

\* Both keys have an entry; one of them was called after its window elapsed
\* and then suppressed, and still holds the value of its last forwarded call.
C17_Witness ==
  /\ DOMAIN last_reading_value = Keys
  /\ \E k \in Keys :
       /\ Cardinality(ForwardedOn(k)) >= 2
       /\ \E i \in 1..Len(calls) :
            calls[i].key = k /\ calls[i].suppress /\ i > Max(ForwardedOn(k))

----------------------------------------------------------------------------
(* Claims about the cache as the manager uses it, under Spec *)

\* The key of the message the i-th ShouldSuppress call was made for.
MsgKey(i) == KeyOf(read_log[calls[i].id])

\* The earlier calls, for messages with the key of the i-th call's message,
\* that returned false.
OwnTimeline(i) == {j \in 1..(i - 1) : MsgKey(j) = MsgKey(i) /\ ~calls[j].suppress}

\* The cache holds (value, t) for key.
HasEntry(key, value, t) ==
  /\ key \in DOMAIN last_reading_time
  /\ key \in DOMAIN last_reading_value
  /\ last_reading_time[key] = t
  /\ last_reading_value[key] = value

\* C18: the result of a ShouldSuppress call is decided by the value, the
\* time and the last forwarded call among the messages of the same kind and
\* name alone, and handling a message changes the entry of no other key: a
\* meter and a sensor of the same name do not suppress or reset each other.
C18_KeysIndependent ==
  /\ [](\A i \in 1..Len(calls) :
          calls[i].suppress <=>
            /\ OwnTimeline(i) # {}
            /\ calls[Max(OwnTimeline(i))].value = calls[i].value
            /\ calls[i].time - calls[Max(OwnTimeline(i))].time < max_delta)
  /\ [][\A k \in DOMAIN last_reading_time :
          (mgr_pc = "handle" => k # KeyOf(mgr_msg))
            => /\ k \in DOMAIN last_reading_time'
               /\ last_reading_time'[k] = last_reading_time[k]
               /\ last_reading_value'[k] = last_reading_value[k]]_vars

\* A meter reading was forwarded, then a sensor reading of the same name and
\* value inside the meter's window was forwarded too, and the next meter
\* reading with that value was still suppressed.
C18_Witness ==
  /\ Len(calls) = 3
  /\ calls[1].key = <<"meter", "flow0">> /\ ~calls[1].suppress
  /\ calls[2].key = <<"thermo", "flow0">> /\ ~calls[2].suppress
  /\ calls[2].value = calls[1].value
  /\ calls[2].time - calls[1].time < max_delta
  /\ calls[3].key = <<"meter", "flow0">> /\ calls[3].suppress

\* No call on the key of call c after c and before i returned false.
NoneForwardedBetween(c, i) ==
  \A j \in (c + 1)..(i - 1) : calls[j].key = calls[c].key => calls[j].suppress

\* C19: while the client call for a reading is being made the cache already
\* holds (value, time of the ShouldSuppress call) for its key; after the
\* call has raised the entry is still that one until another call on the key
\* returns false, and a later reading of the same key and value within the
\* window is suppressed, with no client call made for it.
C19_FailedSendKeepsEntry ==
  /\ Sending =>
       /\ CallsFor(mgr_msg.id) # {}
       /\ \A c \in CallsFor(mgr_msg.id) :
            HasEntry(calls[c].key, calls[c].value, calls[c].time)
  /\ \A s \in 1..Len(sends) :
       ~sends[s].ok =>
         \A c \in CallsFor(sends[s].id) :
           /\ NoneForwardedBetween(c, Len(calls) + 1)
                => HasEntry(calls[c].key, calls[c].value, calls[c].time)
           /\ \A i \in (c + 1)..Len(calls) :
                (/\ calls[i].key = calls[c].key
                 /\ calls[i].value = calls[c].value
                 /\ calls[i].time - calls[c].time < max_delta
                 /\ NoneForwardedBetween(c, i))
                => /\ calls[i].suppress
                   /\ SendsFor(calls[i].id) = {}
                   /\ ~InSend(calls[i].id)

\* The send of a reading raised, and the next reading of that key, with the
\* same value and inside the window, was suppressed; the value was never
\* delivered.
C19_Witness ==
  \E s \in 1..Len(sends) :
    /\ ~sends[s].ok
    /\ \E c \in CallsFor(sends[s].id) :
         \E i \in (c + 1)..Len(calls) :
           /\ calls[i].key = calls[c].key
           /\ calls[i].value = calls[c].value
           /\ calls[i].suppress
           /\ NoneForwardedBetween(c, i)
    /\ \A d \in 1..Len(sends) : sends[d].value = sends[s].value => ~sends[d].ok

====
